---- MODULE Spec2Model ----
(***************************************************************************)
(* Model of texture_path_tool.py: TexturePathTool scans the file texture   *)
(* nodes of a scene for paths that do not exist on disk (the scan,         *)
(* find_invalid_texture_paths) and re-links them to a file of the same     *)
(* base name found by walking the scene file's directory (the repair,      *)
(* fix_texture_paths).                                                     *)
(*                                                                         *)
(* A path is the sequence of its components: "root/a/wood.png" is          *)
(* <<"root", "a", "wood.png">> and the empty string is << >>.              *)
(***************************************************************************)
EXTENDS Integers, Sequences, FiniteSets, TLC

\* Bounds of the model.
MaxTex == 2       \* at most this many texture2d nodes in the scene
MaxFiles == 3     \* at most this many files on disk

(***************************************************************************)
(* The host: a filesystem and a scene.                                     *)
(***************************************************************************)

\* The directories on disk: a tree under "root" and a directory outside it.
Dirs ==
    { <<"root">>, <<"root", "a">>, <<"root", "a", "c">>, <<"root", "b">>,
      <<"old">> }

\* Every place a file may be: "wood.png" in any directory, "brick.png" in two.
FileSlots ==
    { Append(d, "wood.png") : d \in Dirs }
      \cup { <<"root", "b", "brick.png">>, <<"old", "brick.png">> }

\* The values the fileTextureName attribute of a file node may hold.
TexturePaths ==
    { << >>, <<"root">>, <<"old", "wood.png">>, <<"old", "brick.png">>,
      <<"root", "a", "wood.png">> }

\* What cmds.file(sceneName=True, query=True) may answer: "" for a scene
\* that was never saved, or the path of the scene file.
SceneNames == { << >>, <<"root", "scene.mb">>, <<"root", "a", "scene.mb">> }

\* The node types cmds.ls(type="texture2d") lists: file nodes carry the
\* fileTextureName attribute, the procedural texture2d nodes (ramp) do not.
NodeTypes == {"file", "ramp"}

VARIABLES
    files,            \* host: the set of paths of the files on disk
    scandir,          \* host: for each directory, its sub-directories in listing order
    scene_name,       \* host: the path of the open scene file
    node_type,        \* host: the type of each texture2d node (nodes are 1..n)
    attr,             \* host: fileTextureName of each node
    pc,               \* "start" | "ready" (tpt constructed) | "crashed" (an exception escaped)
    all_textures,     \* self.all_textures
    current_dir,      \* self.current_dir
    missing_textures, \* self.missing_textures
    returned,         \* the list the last call of find_invalid_texture_paths returned
    fixed_textures,   \* fixed_textures of the last repair pass
    fixed_path_count, \* fixed_path_count of the last repair pass
    message,          \* the summary handed to cmds.confirmDialog by the last repair pass
    writes,           \* the cmds.setAttr calls of the last repair pass, in order
    lastOp,           \* "none" | "scan" | "rescan" (a scan right after a scan) | "repair" | "crash"
    pre_list,         \* history: the list the last operation started from
    pre_attr          \* history: attr when the last operation started

vars ==
    << files, scandir, scene_name, node_type, attr, pc, all_textures,
       current_dir, missing_textures, returned, fixed_textures,
       fixed_path_count, message, writes, lastOp, pre_list, pre_attr >>

host == << files, scandir, scene_name, node_type >>

(***************************************************************************)
(* Helpers on sequences and sets.                                          *)
(***************************************************************************)

Elems(s) == { s[i] : i \in 1..Len(s) }

Count(s, x) == Cardinality({ i \in 1..Len(s) : s[i] = x })

IsPrefix(p, q) == Len(p) <= Len(q) /\ SubSeq(q, 1, Len(p)) = p

\* s can be obtained from t by deleting elements (order kept); both duplicate-free here.
IsSubList(s, t) ==
    /\ \A i \in 1..Len(s) : Count(s, s[i]) = 1 /\ Count(t, s[i]) = 1
    /\ \A i, j \in 1..Len(s) :
          i < j =>
            \E k, l \in 1..Len(t) : k < l /\ t[k] = s[i] /\ t[l] = s[j]

\* All orderings of a finite set.
Perms(S) ==
    { s \in [1..Cardinality(S) -> S] : \A i, j \in 1..Cardinality(S) : s[i] = s[j] => i = j }

(***************************************************************************)
(* os.path and os.walk.                                                    *)
(***************************************************************************)

\* os.path.basename: what follows the last separator.
basename(p) == IF p = << >> THEN "" ELSE p[Len(p)]

\* os.path.dirname: what precedes the last separator.
dirname(p) == IF p = << >> THEN << >> ELSE SubSeq(p, 1, Len(p) - 1)

\* A slip: the name is joined to the search root, not to the directory it was found in.
join_top(root, name) == Append(current_dir, name)

\* os.path.join(root, name)
join(root, name) == Append(root, name)

\* os.path.exists: a file or a directory is there; "" never exists.
exists(p) == p \in files \/ p \in Dirs

\* The sub-directories of a directory.
Children(d) == { c \in Dirs : Len(c) = Len(d) + 1 /\ IsPrefix(d, c) }

\* A slip: every directory is reported with the files of the whole disk.
FilesAnywhere(d) == { basename(f) : f \in files }

\* The names of the files directly in a directory.
FilesIn(d) == { basename(f) : f \in { g \in files : dirname(g) = d } }

\* os.walk(top), top-down: the directory itself, then each sub-directory's
\* walk in listing order. A top that is no directory yields nothing.
RECURSIVE walk(_)
RECURSIVE walk_each(_)

\* A slip: the walk is bottom-up (topdown=False), a directory after its sub-directories.
walk_bottom_up(top) ==
    IF top \notin Dirs THEN << >>
    ELSE walk_each(scandir[top]) \o << [root |-> top, files |-> FilesIn(top)] >>

walk(top) ==
    IF top \notin Dirs THEN << >>
    ELSE << [root |-> top, files |-> FilesIn(top)] >> \o walk_each(scandir[top])

walk_each(ds) ==
    IF ds = << >> THEN << >> ELSE walk(Head(ds)) \o walk_each(Tail(ds))

(***************************************************************************)
(* cmds.getAttr                                                            *)
(***************************************************************************)

\* cmds.getAttr(tx + ".fileTextureName") raises for a node without the attribute.
readable(tx) == node_type[tx] = "file"

(***************************************************************************)
(* find_invalid_texture_paths                                              *)
(***************************************************************************)

\* A slip: the test of line 83 without its "not".
is_present(file_path) == exists(file_path)

\* Line 83: the path is reported missing when os.path.exists says no.
is_missing(file_path) == ~exists(file_path)

\* The loop of find_invalid_texture_paths over the textures still to check,
\* acc being missing_textures so far. getAttr of a node without the
\* attribute raises, and so does os.path.exists of a value that is no string:
\* the exception leaves the loop and the method.
RECURSIVE find_loop(_, _, _)
find_loop(texs, a, acc) ==
    IF texs = << >> THEN [raised |-> FALSE, list |-> acc]
    ELSE LET tx == Head(texs) IN
         IF ~readable(tx) THEN [raised |-> TRUE, list |-> << >>]
         ELSE IF is_missing(a[tx])
              THEN find_loop(Tail(texs), a, Append(acc, tx))
              ELSE find_loop(Tail(texs), a, acc)

\* A slip: the list is not started empty, it goes on from the last one returned.
find_more_invalid_texture_paths(texs, a) == find_loop(texs, a, returned)

\* Lines 74-89.
find_invalid_texture_paths(texs, a) == find_loop(texs, a, << >>)

(***************************************************************************)
(* fix_texture_paths                                                       *)
(***************************************************************************)

\* A slip: no break, the walk goes on after a match.
no_break(rest) == rest

\* Line 122: break, nothing of the walk is looked at after the first match.
after_match(rest) == << >>

\* Lines 104-122: the search of one texture through the directories the walk
\* still has to yield; st holds attr, fixed_textures, fixed_path_count, the
\* setAttr calls made, and path_found.
RECURSIVE search(_, _, _, _)
search(entries, tx, file_name, st) ==
    IF entries = << >> THEN st
    ELSE LET e == Head(entries) IN
         IF file_name \in e.files
         THEN LET update_path == join(e.root, file_name)
                  a2 == [st.attr EXCEPT ![tx] = update_path]
                  new_file_path == a2[tx]
              IN  search(after_match(Tail(entries)), tx, file_name,
                         [st EXCEPT !.attr = a2,
                                    !.writes = Append(@, [tx |-> tx, path |-> update_path]),
                                    !.path_found = TRUE,
                                    !.count = @ + 1,
                                    !.fixed = Append(@, new_file_path)])
         ELSE search(Tail(entries), tx, file_name, st)

\* A slip: path_found is set FALSE once, before the loop over the textures.
keep_found(st) == st

\* Line 101: path_found starts FALSE for every texture.
reset_found(st) == [st EXCEPT !.path_found = FALSE]

\* A slip: lines 125-126 are not under "if not path_found".
fix_one_always_missing(tx, st) ==
    LET file_path == st.attr[tx]
        file_name == basename(file_path)
        s2 == search(walk(current_dir), tx, file_name, reset_found(st))
    IN  [s2 EXCEPT !.missing = Append(@, tx)]

\* Lines 97-126: the body of the loop for one texture.
fix_one(tx, st) ==
    LET file_path == st.attr[tx]
        file_name == basename(file_path)
        s2 == search(walk(current_dir), tx, file_name, reset_found(st))
    IN  IF ~s2.path_found
        THEN [s2 EXCEPT !.missing = Append(@, tx)]
        ELSE s2

\* Lines 92-126: the loop over self.missing_textures.
RECURSIVE fix_loop(_, _)
fix_loop(texs, st) ==
    IF texs = << >> THEN st
    ELSE fix_loop(Tail(texs), fix_one(Head(texs), st))

\* Lines 92-94 and 101: the locals of fix_texture_paths before its loop,
\* over the path attributes a.
pass_start(a) ==
    [attr |-> a, missing |-> << >>, fixed |-> << >>, count |-> 0,
     writes |-> << >>, path_found |-> FALSE]

\* Lines 130-141: what the summary says.
summary(missing, count, fixed) ==
    IF Len(missing) = 0
    THEN [kind |-> "all", unrepaired |-> 0, repaired |-> count, paths |-> fixed]
    ELSE [kind |-> "some", unrepaired |-> Len(missing), repaired |-> count,
          paths |-> fixed]

NoMessage == [kind |-> "none", unrepaired |-> 0, repaired |-> 0, paths |-> << >>]

(***************************************************************************)
(* The state machine.                                                      *)
(***************************************************************************)

\* cmds.ls(type="texture2d"): the nodes in the host's order.
ls == [i \in 1..Len(node_type) |-> i]

Init ==
    /\ files \in { F \in SUBSET FileSlots : Cardinality(F) <= MaxFiles }
    /\ scandir \in { f \in [Dirs -> UNION { Perms(Children(d)) : d \in Dirs }] :
                        \A d \in Dirs : f[d] \in Perms(Children(d)) }
    /\ scene_name \in SceneNames
    /\ \E n \in 0..MaxTex :
          /\ node_type \in [1..n -> NodeTypes]
          /\ attr \in { a \in [1..n -> TexturePaths] :
                           \A i \in 1..n : node_type[i] = "ramp" => a[i] = << >> }
    /\ pc = "start"
    /\ all_textures = << >>
    /\ current_dir = << >>
    /\ missing_textures = << >>
    /\ returned = << >>
    /\ fixed_textures = << >>
    /\ fixed_path_count = 0
    /\ message = NoMessage
    /\ writes = << >>
    /\ lastOp = "none"
    /\ pre_list = << >>
    /\ pre_attr = attr

\* tpt = TexturePathTool(): __init__, lines 14-19.
Construct ==
    /\ pc = "start"
    /\ all_textures' = ls
    /\ current_dir' = dirname(scene_name)
    /\ LET r == find_invalid_texture_paths(ls, attr) IN
          IF r.raised
          THEN /\ pc' = "crashed"
               /\ lastOp' = "crash"
               /\ UNCHANGED << missing_textures, returned >>
          ELSE /\ pc' = "ready"
               /\ lastOp' = "scan"
               /\ missing_textures' = r.list
               /\ returned' = r.list
    /\ pre_list' = << >>
    /\ pre_attr' = attr
    /\ UNCHANGED << host, attr, fixed_textures, fixed_path_count, message, writes >>

\* A call of tpt.find_invalid_texture_paths(), lines 74-89. Every node of
\* all_textures was read by __init__ and node types do not change, so
\* the call returns.
Scan ==
    /\ pc = "ready"
    /\ LET r == find_invalid_texture_paths(all_textures, attr) IN
          /\ ~r.raised
          /\ returned' = r.list
    /\ lastOp' = IF lastOp \in {"scan", "rescan"} THEN "rescan" ELSE "scan"
    /\ pre_list' = returned
    /\ pre_attr' = attr
    /\ UNCHANGED << host, attr, pc, all_textures, current_dir, missing_textures,
                    fixed_textures, fixed_path_count, message, writes >>

\* A slip: the repair goes over every texture of the scene.
every_texture == all_textures

\* Line 96: the repair goes over self.missing_textures.
repair_targets == missing_textures

\* The Repair button, or a call of tpt.fix_texture_paths(): lines 91-154.
Repair ==
    /\ pc = "ready"
    /\ LET st == fix_loop(repair_targets, pass_start(attr))
       IN  /\ attr' = st.attr
           /\ missing_textures' = st.missing
           /\ fixed_textures' = st.fixed
           /\ fixed_path_count' = st.count
           /\ writes' = st.writes
           /\ message' = summary(st.missing, st.count, st.fixed)
    /\ lastOp' = "repair"
    /\ pre_list' = missing_textures
    /\ pre_attr' = attr
    /\ UNCHANGED << host, pc, all_textures, current_dir, returned >>

Next == Construct \/ Scan \/ Repair

Spec == Init /\ [][Next]_vars

(***************************************************************************)
(* What the properties speak of.                                           *)
(***************************************************************************)

\* The files of the tree under a search root; no tree under what is no directory.
TreeFiles(top) ==
    IF top \in Dirs THEN { f \in files : IsPrefix(top, dirname(f)) } ELSE {}

\* The files under the search root that have the base name of the path p.
Named(p) == { f \in TreeFiles(current_dir) : basename(f) = basename(p) }

\* The place of x in the duplicate-free sequence s.
Index(s, x) == CHOOSE i \in 1..Len(s) : s[i] = x

\* A top-down traversal reaches directory d before directory e: d is above e,
\* or where their paths part d's branch is listed before e's.
Before(d, e) ==
    /\ d # e
    /\ \/ IsPrefix(d, e)
       \/ /\ ~IsPrefix(e, d)
          /\ LET k == CHOOSE i \in 1..Len(d) :
                         /\ i <= Len(e)
                         /\ d[i] # e[i]
                         /\ \A j \in 1..(i - 1) : d[j] = e[j]
                 order == scandir[SubSeq(d, 1, k - 1)]
             IN  Index(order, SubSeq(d, 1, k)) < Index(order, SubSeq(e, 1, k))

\* The sequence s from its last element to its first.
Reverse(s) == [i \in 1..Len(s) |-> s[Len(s) + 1 - i]]

\* The setAttr calls of the last pass on texture tx.
WritesOf(tx) == { i \in 1..Len(writes) : writes[i].tx = tx }

Scanned == lastOp \in {"scan", "rescan"}

Repaired(tx) ==
    /\ WritesOf(tx) # {}
    /\ attr[tx] # pre_attr[tx]
    /\ attr[tx] \in files
    /\ tx \notin Elems(missing_textures)

StillMissing(tx) ==
    /\ WritesOf(tx) = {}
    /\ attr[tx] = pre_attr[tx]
    /\ Count(missing_textures, tx) = 1

(***************************************************************************)
(* The properties.                                                         *)
(***************************************************************************)

\* C1: when a scan has returned, a texture of the scene is in the returned
\* list exactly once if its path does not exist (os.path.exists) and not at
\* all if it exists; the list holds nothing else, and the scan of __init__
\* is what self.missing_textures holds.
C1_ScanClassifies ==
    Scanned =>
      /\ \A tx \in Elems(all_textures) :
            /\ ~exists(attr[tx]) => Count(returned, tx) = 1
            /\ exists(attr[tx]) => Count(returned, tx) = 0
      /\ Elems(returned) \subseteq Elems(all_textures)
      /\ message = NoMessage => missing_textures = returned

C1_Witness ==
    /\ lastOp = "scan"
    /\ \E tx, ty \in Elems(all_textures) :
          /\ exists(attr[tx]) /\ tx \notin Elems(returned)
          /\ ~exists(attr[ty]) /\ ty \in Elems(missing_textures)

\* C2: after a repair pass every texture the pass started with is either
\* repaired (written, path now an existing file, out of the missing list) or
\* still missing (not written, path as before, in the missing list once),
\* never both and never neither.
C2_RepairedOrStillMissing ==
    lastOp = "repair" =>
      \A tx \in Elems(pre_list) : Repaired(tx) # StillMissing(tx)

C2_Witness ==
    /\ lastOp = "repair"
    /\ \E tx, ty \in Elems(pre_list) : Repaired(tx) /\ StillMissing(ty)

\* C3: a texture of the pass whose base name is that of exactly one file P
\* under the search root ends with path P, out of the missing list, with P
\* among the new paths of the summary.
C3_UniqueMatchRepaired ==
    lastOp = "repair" =>
      \A tx \in Elems(pre_list) :
         Cardinality(Named(pre_attr[tx])) = 1 =>
           \A P \in Named(pre_attr[tx]) :
              /\ attr[tx] = P
              /\ tx \notin Elems(missing_textures)
              /\ Count(fixed_textures, P) >= 1
              /\ Count(message.paths, P) >= 1

C3_Witness ==
    /\ lastOp = "repair"
    /\ \E tx \in Elems(pre_list) :
          /\ Cardinality(Named(pre_attr[tx])) = 1
          /\ Len(attr[tx]) > Len(current_dir) + 1
          /\ attr[tx] # pre_attr[tx]

\* C4: a texture of the pass whose base name is that of no file under the
\* search root (a search root that is no directory has none) keeps its path
\* and is in the missing list after the pass.
C4_NoMatchUnchanged ==
    lastOp = "repair" =>
      \A tx \in Elems(pre_list) :
         Named(pre_attr[tx]) = {} =>
           /\ attr[tx] = pre_attr[tx]
           /\ WritesOf(tx) = {}
           /\ Count(missing_textures, tx) = 1

C4_Witness ==
    /\ lastOp = "repair"
    /\ current_dir \in Dirs
    /\ \E tx \in Elems(pre_list) :
          /\ Named(pre_attr[tx]) = {}
          /\ \E f \in files : basename(f) = basename(pre_attr[tx])
          /\ tx \in Elems(missing_textures)

\* C5: the repaired and the unrepaired count of the summary add up to the
\* length of the list the pass started with, and the summary lists as many
\* new paths as it counts repaired.
C5_CountsAddUp ==
    lastOp = "repair" =>
      /\ message.repaired + message.unrepaired = Len(pre_list)
      /\ Len(message.paths) = message.repaired
      /\ fixed_path_count + Len(missing_textures) = Len(pre_list)
      /\ Len(fixed_textures) = fixed_path_count

C5_Witness ==
    /\ lastOp = "repair"
    /\ message.repaired >= 1
    /\ message.unrepaired >= 1

\* C6: no operation ends in an exception, and a texture whose path attribute
\* cannot be read is in the missing list after the scan.
C6_NeverRaises ==
    lastOp # "none" =>
      /\ pc # "crashed"
      /\ \A tx \in Elems(all_textures) :
            ~readable(tx) => tx \in Elems(missing_textures)

\* C7: a scan right after a scan returns the list the first returned, and a
\* scan changes no path attribute.
C7_ScanIdempotent ==
    /\ lastOp = "rescan" => returned = pre_list
    /\ Scanned => attr = pre_attr

C7_Witness ==
    /\ lastOp = "rescan"
    /\ returned # << >>
    /\ Len(returned) < Len(all_textures)

\* C8: a texture of the pass whose base name is that of two or more files
\* under the search root is written exactly once, to one of those files, the
\* one in the directory the top-down traversal reaches first; the pass counts
\* one repair and one new path for each texture it wrote, and does not raise.
C8_DuplicatesFirstMatch ==
    lastOp = "repair" =>
      /\ pc = "ready"
      /\ fixed_path_count = Cardinality({ writes[i].tx : i \in 1..Len(writes) })
      /\ Len(fixed_textures) = fixed_path_count
      /\ \A tx \in Elems(pre_list) :
            Cardinality(Named(pre_attr[tx])) >= 2 =>
              /\ Cardinality(WritesOf(tx)) = 1
              /\ \A i \in WritesOf(tx) : writes[i].path = attr[tx]
              /\ attr[tx] \in Named(pre_attr[tx])
              /\ Count(fixed_textures, attr[tx]) >= 1
              /\ \A f \in Named(pre_attr[tx]) \ {attr[tx]} :
                    Before(dirname(attr[tx]), dirname(f))

C8_Witness ==
    /\ lastOp = "repair"
    /\ \E tx \in Elems(pre_list) :
          /\ Cardinality(Named(pre_attr[tx])) >= 2
          /\ WritesOf(tx) # {}
          /\ \E f \in Named(pre_attr[tx]) :
                /\ f # attr[tx]
                /\ ~IsPrefix(dirname(attr[tx]), dirname(f))

\* C9: what a pass does to a texture is what a pass over that texture alone
\* does to it (same path written or none, same place in or out of the missing
\* list), the pass over it alone changes the path of no other texture, and a
\* pass over the same textures in the opposite order ends with the same
\* paths and the same textures missing.
C9_PerReferenceIndependent ==
    lastOp = "repair" =>
      /\ \A tx \in Elems(pre_list) :
            LET alone == fix_loop(<< tx >>, pass_start(pre_attr))
            IN  /\ attr[tx] = alone.attr[tx]
                /\ (tx \in Elems(missing_textures)) = (tx \in Elems(alone.missing))
                /\ Cardinality(WritesOf(tx)) = Len(alone.writes)
                /\ \A ty \in DOMAIN attr : ty # tx => alone.attr[ty] = pre_attr[ty]
      /\ LET back == fix_loop(Reverse(pre_list), pass_start(pre_attr))
         IN  /\ back.attr = attr
             /\ Elems(back.missing) = Elems(missing_textures)
             /\ back.count = fixed_path_count

C9_Witness ==
    /\ lastOp = "repair"
    /\ \E tx, ty \in Elems(pre_list) :
          /\ Index(pre_list, tx) < Index(pre_list, ty)
          /\ attr[tx] # pre_attr[tx]
          /\ attr[ty] = pre_attr[ty]

\* C10: a pass writes only textures of the missing list it started with and
\* changes the path of no other, in particular of none the last scan found
\* valid; the missing list it leaves is a sub-list, in order and without
\* duplicates, of the one it started with; a scan changes no path.
C10_WritesOnlyMissing ==
    /\ lastOp = "repair" =>
         /\ \A i \in 1..Len(writes) : writes[i].tx \in Elems(pre_list)
         /\ \A tx \in DOMAIN attr :
               attr[tx] # pre_attr[tx] => tx \in Elems(pre_list)
         /\ \A tx \in Elems(all_textures) :
               tx \notin Elems(returned) => attr[tx] = pre_attr[tx]
         /\ IsSubList(missing_textures, pre_list)
    /\ Scanned => attr = pre_attr /\ IsSubList(missing_textures, returned)

C10_Witness ==
    /\ lastOp = "repair"
    /\ writes # << >>
    /\ \E tx \in Elems(all_textures) :
          /\ tx \notin Elems(returned)
          /\ Named(attr[tx]) # {}

====
